---- MODULE Spec2Model ----
(***************************************************************************)
(* A model of maskrcnn_benchmark/engine/trainer.py: the training loop      *)
(* do_train, run by one process per rank, and reduce_loss_dict, the        *)
(* cross-process averaging of the loss dictionary.                         *)
(*                                                                         *)
(* The collaborators (model, data loader, optimizer, scheduler,            *)
(* checkpointer, writer, torch.distributed) are external.  Each is         *)
(* modelled by the calls do_train makes on it: a counter or a log of the   *)
(* calls, and for the model's forward pass a nondeterministic outcome.     *)
(***************************************************************************)
EXTENDS Integers, Sequences, FiniteSets, TLC

(***************************************************************************)
(* Bounds of the model.                                                    *)
(***************************************************************************)
\* The most batches a data loader yields.
MaxBatches == 3
\* The most batches a data loader yields in a run of several processes.
MaxDistBatches == 2
\* The largest checkpoint_period.
MaxPeriod == 2
\* The values of arguments["iteration"] do_train is called with: a fresh
\* start, a resume, and a resume one iteration before the log period.
StartIters == {0, 1, 19}
\* The ranks of the process group; a run uses the first world_size of them.
Ranks == {0, 1}
WorldSizes == {1, 2}

(***************************************************************************)
(* Program constants.                                                      *)
(***************************************************************************)
\* reduce_loss_dict: "if world_size < 2: return loss_dict".
MinDistWorldSize == 2
\* dist.reduce(all_losses, dst=0).
Dst == 0
\* do_train: "iteration % 20 == 0".
LogPeriod == 20
\* do_train: "model_{:07d}".
PadWidth == 7
\* do_train: "visual_mode = 5".
VisualMode == 5

(***************************************************************************)
(* Loss values.  A loss is a scalar tensor; the model keeps it as an exact *)
(* fraction so that the division by world_size is a division.              *)
(***************************************************************************)
Rat(n) == [num |-> n, den |-> 1]

RatAdd(a, b) == [num |-> a.num * b.den + b.num * a.den, den |-> a.den * b.den]

RatDiv(a, n) == [num |-> a.num, den |-> a.den * n]

RatEq(a, b) == a.num * b.den = b.num * a.den

(***************************************************************************)
(* A dict is the sequence of its items in insertion order.  The loss names *)
(* are strings; SortedNames is their order under Python's sorted().        *)
(***************************************************************************)
SortedNames == <<"loss_densebox_cls", "loss_densebox_reg">>

NameRank(k) == CHOOSE i \in 1..Len(SortedNames) : SortedNames[i] = k

Item(k, n) == [k |-> k, v |-> Rat(n)]

Keys(d) == {d[i].k : i \in DOMAIN d}

Get(d, k) == d[CHOOSE i \in DOMAIN d : d[i].k = k].v

\* The loss dicts a successful forward pass may return: the same key set in
\* either insertion order, with different values.
ForwardOutputs ==
    { <<Item("loss_densebox_cls", 1), Item("loss_densebox_reg", 2)>>,
      <<Item("loss_densebox_reg", 1), Item("loss_densebox_cls", 2)>>,
      <<Item("loss_densebox_reg", 0), Item("loss_densebox_cls", 4)>> }

\* A local variable that has not been assigned yet.
Unbound == [bound |-> FALSE, items |-> <<>>]

Bound(d) == [bound |-> TRUE, items |-> d]

\* sum(loss for loss in d.values()): a left fold from the integer 0.
RECURSIVE SumFrom(_, _, _)
SumFrom(acc, d, i) ==
    IF i > Len(d) THEN acc ELSE SumFrom(RatAdd(acc, d[i].v), d, i + 1)

SumValues(d) == SumFrom(Rat(0), d, 1)

(***************************************************************************)
(* reduce_loss_dict                                                        *)
(***************************************************************************)
\* "if world_size < 2: return loss_dict": the reduction is distributed
\* otherwise.  (Two faulty variants first: a threshold one too high, and no
\* early return at all.)
IsDistributedOff(ws) == ~(ws < MinDistWorldSize + 1)

IsDistributedAlways(ws) == TRUE

IsDistributed(ws) == ~(ws < MinDistWorldSize)

\* "for k in sorted(loss_dict.keys()): loss_names.append(k)".  (A faulty
\* variant first: the keys in insertion order, without sorted().)
LossNamesUnsorted(d) == [i \in DOMAIN d |-> d[i].k]

LossNames(d) ==
    SortSeq([i \in DOMAIN d |-> d[i].k],
            LAMBDA a, b : NameRank(a) < NameRank(b))

\* "all_losses.append(loss_dict[k])" and torch.stack: the values in the
\* order of loss_names.
Stack(d) == [i \in 1..Len(LossNames(d)) |-> Get(d, LossNames(d)[i])]

\* The element-wise sum of the tensors of the ranks in rs (dist.reduce's
\* default operation).
RECURSIVE TensorSum(_, _)
TensorSum(tensors, rs) ==
    IF rs = {} THEN <<>>
    ELSE LET r == CHOOSE x \in rs : TRUE
             rest == TensorSum(tensors, rs \ {r})
         IN  IF rest = <<>> THEN tensors[r]
             ELSE [i \in DOMAIN tensors[r] |-> RatAdd(tensors[r][i], rest[i])]

\* "if dist.get_rank() == 0: all_losses /= world_size".
Divisor(rank, ws) == IF rank = 0 THEN ws ELSE 1

\* "reduced_losses = {k: v for k, v in zip(loss_names, all_losses)}".
Zip(names, tensor) ==
    [i \in 1..(IF Len(names) < Len(tensor) THEN Len(names) ELSE Len(tensor))
        |-> [k |-> names[i], v |-> tensor[i]]]

(***************************************************************************)
(* do_train: the pure parts                                                *)
(***************************************************************************)
\* "iteration = iteration + 1" on the index enumerate(data_loader,
\* start_iter) yields for the k-th batch, which is start_iter + k - 1.  (A
\* faulty variant first: the index without the increment.)
IterationOfStale(start, k) == start + k - 1

IterationOf(start, k) == (start + k - 1) + 1

\* The except branch prints and assigns nothing: loss_dict is what it was.
\* (A faulty variant first: the failed forward pass leaves no loss_dict.)
AfterValueErrorReset(ld) == Unbound

AfterValueError(ld) == ld

\* "losses = sum(loss for loss in loss_dict.values())" raises
\* UnboundLocalError when loss_dict was never assigned.  (A faulty variant
\* first: an unassigned loss_dict read as an empty one.)
SumLossesRaisesNever(ld) == FALSE

SumLossesRaises(ld) == ~ld.bound

\* "if iteration % 20 == 0 or iteration == max_iter".
ShouldLog(iteration, max_iter) ==
    iteration % LogPeriod = 0 \/ iteration = max_iter

\* "if iteration % checkpoint_period == 0".
ShouldCheckpoint(iteration, period) == iteration % period = 0

\* "if iteration == max_iter".  (A faulty variant first: >= for ==.)
IsFinalAtLeast(iteration, max_iter) == iteration >= max_iter

IsFinal(iteration, max_iter) == iteration = max_iter

\* "{:07d}".format(iteration): the decimal digits, zero-padded on the left
\* to at least PadWidth of them.
RECURSIVE Digits(_)
Digits(n) == IF n < 10 THEN <<n>> ELSE Append(Digits(n \div 10), n % 10)

ZeroPad(ds, w) ==
    IF Len(ds) >= w THEN ds
    ELSE [i \in 1..w |-> IF i <= w - Len(ds) THEN 0 ELSE ds[i - (w - Len(ds))]]

PeriodicName(iteration) ==
    [stem |-> "model_", digits |-> ZeroPad(Digits(iteration), PadWidth)]

FinalName == [stem |-> "model_final", digits |-> <<>>]

\* visualize(visual_mode, optimizer, optimizer_split, meters, iteration,
\* writer): the tags written, in order.
Visualize(visual_mode, optimizer_split) ==
    (IF optimizer_split THEN <<"train/enc_lr", "train/dec_lr">>
     ELSE <<"train/lr">>)
    \o <<"train/loss">>
    \o (IF visual_mode \in {0, 1}
        THEN <<"train/loss_retina_cls", "train/loss_retina_reg">>
        ELSE IF visual_mode \in {2, 3}
        THEN <<"train/loss_densebox_cls", "train/loss_densebox_reg",
               "train/loss_reg_weights">>
        ELSE <<>>)

(***************************************************************************)
(* State                                                                   *)
(***************************************************************************)
VARIABLES
    \* The arguments of the run, the same on every rank but the data loader.
    world_size,         \* get_world_size()
    checkpoint_period,  \* checkpoint_period
    start_iter,         \* arguments["iteration"] when do_train is called
    writer,             \* whether writer is not None
    data_loader,        \* per rank: len(data_loader) and the batches it yields
    \* do_train's frame, per rank.
    pc,                 \* the statement the rank is at
    fetched,            \* the batches fetched so far
    iteration,          \* the local variable iteration
    arguments,          \* arguments["iteration"]
    loss_dict,          \* the local variable loss_dict
    losses,             \* the local variable losses
    loss_dict_reduced,  \* the local variable loss_dict_reduced
    \* reduce_loss_dict's frame, per rank, while the rank is in the call.
    loss_names,
    all_losses,
    \* The collaborators, per rank, by the calls made on them.
    meters,             \* updates of the loss meter and the value last given
    backpropagated,     \* the losses value last given to backward
    calls,              \* how many times each collaborator was called
    \* Each logged line, written scalar and save also records when it was
    \* made: the ordinal of the batch in process (batch) and the
    \* optimizer.step calls made so far (steps).
    logged,             \* the logger.info lines of the loop
    written,            \* the writer.add_scalar calls
    saves,              \* the checkpointer.save calls
    \* History, per rank.
    last_forward,       \* what the last successful forward pass returned
    forward_raised,     \* whether this iteration's forward pass raised
    first_failed        \* whether a forward pass raised before any succeeded

inputs == <<world_size, checkpoint_period, start_iter, writer, data_loader>>

frame == <<fetched, iteration, arguments, loss_dict, losses, loss_dict_reduced>>

reduce_frame == <<loss_names, all_losses>>

outputs == <<meters, backpropagated, logged, written, saves>>

history == <<last_forward, forward_raised, first_failed>>

vars == <<inputs, pc, frame, reduce_frame, outputs, calls, history>>

\* The ranks that run do_train.
Active == {r \in Ranks : r < world_size}

\* max_iter = len(data_loader).
max_iter(p) == data_loader[p].len

NoCalls ==
    [scheduler_step |-> 0, forward |-> 0, zero_grad |-> 0, backward |-> 0,
     optimizer_step |-> 0, reduce_entered |-> 0, reduce_returned |-> 0,
     collectives |-> 0]

Called(p, what) == [calls EXCEPT ![p][what] = @ + 1]

\* A data loader: the batches it yields, and its len().  A plain loader
\* yields len() batches; a loader built for a resumed run yields the
\* batches that remain, len() - start_iter.
Loaders(s, most) ==
    {[len |-> n, batches |-> n] : n \in 0..most}
    \cup {[len |-> s + n, batches |-> n] : n \in 0..most}

NoLoader == [len |-> 0, batches |-> 0]

\* A single-process run draws every argument; a run of several processes
\* is a fresh start without a writer, and draws the checkpoint period and
\* what the ranks can differ in: the data loaders (and, in the loop, the
\* outcomes of the forward passes).
Init ==
    /\ world_size \in WorldSizes
    /\ IF world_size = 1
       THEN /\ checkpoint_period \in 1..MaxPeriod
            /\ start_iter \in StartIters
            /\ writer \in BOOLEAN
            /\ data_loader \in [Ranks -> Loaders(start_iter, MaxBatches)]
       ELSE /\ checkpoint_period \in 1..MaxPeriod
            /\ start_iter = 0
            /\ writer = FALSE
            /\ data_loader \in [Ranks -> Loaders(start_iter, MaxDistBatches)]
    /\ \A r \in Ranks : r >= world_size => data_loader[r] = NoLoader
    /\ pc = [r \in Ranks |-> IF r < world_size THEN "fetch" ELSE "off"]
    /\ fetched = [r \in Ranks |-> 0]
    /\ iteration = [r \in Ranks |-> start_iter]
    /\ arguments = [r \in Ranks |-> start_iter]
    /\ loss_dict = [r \in Ranks |-> Unbound]
    /\ losses = [r \in Ranks |-> Rat(0)]
    /\ loss_dict_reduced = [r \in Ranks |-> <<>>]
    /\ loss_names = [r \in Ranks |-> <<>>]
    /\ all_losses = [r \in Ranks |-> <<>>]
    /\ meters = [r \in Ranks |-> [count |-> 0, loss |-> Rat(0)]]
    /\ backpropagated = [r \in Ranks |-> Rat(0)]
    /\ calls = [r \in Ranks |-> NoCalls]
    /\ logged = [r \in Ranks |-> <<>>]
    /\ written = [r \in Ranks |-> <<>>]
    /\ saves = [r \in Ranks |-> <<>>]
    /\ last_forward = [r \in Ranks |-> Unbound]
    /\ forward_raised = [r \in Ranks |-> FALSE]
    /\ first_failed = [r \in Ranks |-> FALSE]

(***************************************************************************)
(* do_train, statement by statement                                        *)
(***************************************************************************)
\* "for iteration, (images, targets, _) in enumerate(data_loader,
\* start_iter)" yields a batch; "iteration = iteration + 1";
\* "arguments["iteration"] = iteration"; "scheduler.step()".
Fetch(p) ==
    /\ pc[p] = "fetch"
    /\ fetched[p] < data_loader[p].batches
    /\ fetched' = [fetched EXCEPT ![p] = @ + 1]
    /\ iteration' = [iteration EXCEPT ![p] = IterationOf(start_iter, fetched[p] + 1)]
    /\ arguments' = [arguments EXCEPT ![p] = IterationOf(start_iter, fetched[p] + 1)]
    /\ calls' = Called(p, "scheduler_step")
    /\ forward_raised' = [forward_raised EXCEPT ![p] = FALSE]
    /\ pc' = [pc EXCEPT ![p] = "forward"]
    /\ UNCHANGED <<inputs, loss_dict, losses, loss_dict_reduced, reduce_frame,
                   outputs, last_forward, first_failed>>

\* The loader is exhausted: the loop ends, and the closing logger.info
\* divides the training time by max_iter, which raises when it is 0.
EndTraining(p) ==
    /\ pc[p] = "fetch"
    /\ fetched[p] = data_loader[p].batches
    /\ pc' = [pc EXCEPT ![p] = IF max_iter(p) = 0 THEN "ZeroDivisionError" ELSE "returned"]
    /\ UNCHANGED <<inputs, frame, reduce_frame, outputs, calls, history>>

\* "loss_dict = model(images, targets)" returns.
ForwardReturns(p) ==
    /\ pc[p] = "forward"
    /\ \E d \in ForwardOutputs :
         /\ loss_dict' = [loss_dict EXCEPT ![p] = Bound(d)]
         /\ last_forward' = [last_forward EXCEPT ![p] = Bound(d)]
    /\ calls' = Called(p, "forward")
    /\ pc' = [pc EXCEPT ![p] = "losses"]
    /\ UNCHANGED <<inputs, fetched, iteration, arguments, losses,
                   loss_dict_reduced, reduce_frame, outputs, forward_raised,
                   first_failed>>

\* model(images, targets) raises ValueError: "except ValueError as e:
\* print(...)".
ForwardRaises(p) ==
    /\ pc[p] = "forward"
    /\ loss_dict' = [loss_dict EXCEPT ![p] = AfterValueError(@)]
    /\ forward_raised' = [forward_raised EXCEPT ![p] = TRUE]
    /\ first_failed' = [first_failed EXCEPT ![p] = @ \/ ~last_forward[p].bound]
    /\ calls' = Called(p, "forward")
    /\ pc' = [pc EXCEPT ![p] = "losses"]
    /\ UNCHANGED <<inputs, fetched, iteration, arguments, losses,
                   loss_dict_reduced, reduce_frame, outputs, last_forward>>

\* "losses = sum(loss for loss in loss_dict.values())".
SumLosses(p) ==
    /\ pc[p] = "losses"
    /\ IF SumLossesRaises(loss_dict[p])
       THEN /\ pc' = [pc EXCEPT ![p] = "UnboundLocalError"]
            /\ UNCHANGED losses
       ELSE /\ pc' = [pc EXCEPT ![p] = "reduce"]
            /\ losses' = [losses EXCEPT ![p] = SumValues(loss_dict[p].items)]
    /\ UNCHANGED <<inputs, fetched, iteration, arguments, loss_dict,
                   loss_dict_reduced, reduce_frame, outputs, calls, history>>

\* "loss_dict_reduced = reduce_loss_dict(loss_dict)" with world_size < 2:
\* "return loss_dict".
ReduceLocal(p) ==
    /\ pc[p] = "reduce"
    /\ ~IsDistributed(world_size)
    /\ loss_dict_reduced' = [loss_dict_reduced EXCEPT ![p] = loss_dict[p].items]
    /\ calls' = [calls EXCEPT ![p].reduce_entered = @ + 1,
                              ![p].reduce_returned = @ + 1]
    /\ pc' = [pc EXCEPT ![p] = "meters"]
    /\ UNCHANGED <<inputs, fetched, iteration, arguments, loss_dict, losses,
                   reduce_frame, outputs, history>>

\* reduce_loss_dict up to its call of dist.reduce: the names are sorted and
\* the values stacked.
ReduceEnter(p) ==
    /\ pc[p] = "reduce"
    /\ IsDistributed(world_size)
    /\ loss_names' = [loss_names EXCEPT ![p] = LossNames(loss_dict[p].items)]
    /\ all_losses' = [all_losses EXCEPT ![p] = Stack(loss_dict[p].items)]
    /\ calls' = Called(p, "reduce_entered")
    /\ pc' = [pc EXCEPT ![p] = "reduce_wait"]
    /\ UNCHANGED <<inputs, frame, outputs, history>>

\* What dist.reduce(all_losses, dst=0) leaves in the tensor of rank p: the
\* sum over the ranks on rank 0 ("only main process gets accumulated"); on
\* another rank the tensor is either untouched or holds the sum.
Reduced(p, summed) ==
    IF p = Dst \/ summed THEN TensorSum(all_losses, Active) ELSE all_losses[p]

\* dist.reduce is a collective: it completes once every rank of the group
\* has called it.
AllArrived == \A q \in Active : pc[q] = "reduce_wait"

\* dist.reduce, then "all_losses /= world_size" on rank 0, and the dict is
\* rebuilt from loss_names.
DistReduce ==
    /\ AllArrived
    /\ \E summed \in [Active -> BOOLEAN] :
         loss_dict_reduced' =
           [q \in Ranks |->
              IF q \in Active
              THEN Zip(loss_names[q],
                       [i \in DOMAIN all_losses[q] |->
                          RatDiv(Reduced(q, summed[q])[i], Divisor(q, world_size))])
              ELSE loss_dict_reduced[q]]
    /\ loss_names' = [q \in Ranks |-> <<>>]
    /\ all_losses' = [q \in Ranks |-> <<>>]
    /\ calls' = [q \in Ranks |->
                   IF q \in Active
                   THEN [calls[q] EXCEPT !.reduce_returned = @ + 1,
                                         !.collectives = @ + 1]
                   ELSE calls[q]]
    /\ pc' = [q \in Ranks |-> IF q \in Active THEN "meters" ELSE pc[q]]
    /\ UNCHANGED <<inputs, fetched, iteration, arguments, loss_dict, losses,
                   outputs, history>>

\* "losses_reduced = sum(loss for loss in loss_dict_reduced.values())";
\* "meters.update(loss=losses_reduced, **loss_dict_reduced)".
MetersUpdate(p) ==
    /\ pc[p] = "meters"
    /\ meters' = [meters EXCEPT ![p] = [count |-> @.count + 1,
                                        loss |-> SumValues(loss_dict_reduced[p])]]
    /\ pc' = [pc EXCEPT ![p] = "zero_grad"]
    /\ UNCHANGED <<inputs, frame, reduce_frame, backpropagated, logged, written,
                   saves, calls, history>>

\* "optimizer.zero_grad()".
ZeroGrad(p) ==
    /\ pc[p] = "zero_grad"
    /\ calls' = Called(p, "zero_grad")
    /\ pc' = [pc EXCEPT ![p] = "backward"]
    /\ UNCHANGED <<inputs, frame, reduce_frame, outputs, history>>

\* "with amp.scale_loss(losses, optimizer) as scaled_loss:
\* scaled_loss.backward()".
Backward(p) ==
    /\ pc[p] = "backward"
    /\ backpropagated' = [backpropagated EXCEPT ![p] = losses[p]]
    /\ calls' = Called(p, "backward")
    /\ pc' = [pc EXCEPT ![p] = "opt_step"]
    /\ UNCHANGED <<inputs, frame, reduce_frame, meters, logged, written, saves,
                   history>>

\* "optimizer.step()".
OptimizerStep(p) ==
    /\ pc[p] = "opt_step"
    /\ calls' = Called(p, "optimizer_step")
    /\ pc' = [pc EXCEPT ![p] = "log"]
    /\ UNCHANGED <<inputs, frame, reduce_frame, outputs, history>>

\* "if iteration % 20 == 0 or iteration == max_iter: logger.info(...)" and,
\* with a writer, "visualize(visual_mode, optimizer, True, meters,
\* iteration, writer)".
Log(p) ==
    /\ pc[p] = "log"
    /\ IF ShouldLog(iteration[p], max_iter(p))
       THEN /\ logged' = [logged EXCEPT ![p] =
                            Append(@, [iter |-> iteration[p], loss |-> meters[p].loss,
                                       batch |-> fetched[p],
                                       steps |-> calls[p].optimizer_step])]
            /\ written' = [written EXCEPT ![p] =
                             IF writer
                             THEN @ \o [i \in DOMAIN Visualize(VisualMode, TRUE) |->
                                          [tag |-> Visualize(VisualMode, TRUE)[i],
                                           step |-> iteration[p],
                                           batch |-> fetched[p],
                                           steps |-> calls[p].optimizer_step]]
                             ELSE @]
       ELSE UNCHANGED <<logged, written>>
    /\ pc' = [pc EXCEPT ![p] = "ckpt"]
    /\ UNCHANGED <<inputs, frame, reduce_frame, meters, backpropagated, saves,
                   calls, history>>

\* "if iteration % checkpoint_period == 0:
\* checkpointer.save("model_{:07d}".format(iteration), **arguments)".
SavePeriodic(p) ==
    /\ pc[p] = "ckpt"
    /\ saves' = [saves EXCEPT ![p] =
                   IF ShouldCheckpoint(iteration[p], checkpoint_period)
                   THEN Append(@, [name |-> PeriodicName(iteration[p]),
                                   iteration |-> arguments[p],
                                   batch |-> fetched[p],
                                   steps |-> calls[p].optimizer_step])
                   ELSE @]
    /\ pc' = [pc EXCEPT ![p] = "final"]
    /\ UNCHANGED <<inputs, frame, reduce_frame, meters, backpropagated, logged,
                   written, calls, history>>

\* "if iteration == max_iter: checkpointer.save("model_final",
\* **arguments)", the last statement of the loop body.
SaveFinal(p) ==
    /\ pc[p] = "final"
    /\ saves' = [saves EXCEPT ![p] =
                   IF IsFinal(iteration[p], max_iter(p))
                   THEN Append(@, [name |-> FinalName,
                                   iteration |-> arguments[p],
                                   batch |-> fetched[p],
                                   steps |-> calls[p].optimizer_step])
                   ELSE @]
    /\ pc' = [pc EXCEPT ![p] = "fetch"]
    /\ UNCHANGED <<inputs, frame, reduce_frame, meters, backpropagated, logged,
                   written, calls, history>>

Next ==
    \/ \E p \in Active : Fetch(p)
    \/ \E p \in Active : EndTraining(p)
    \/ \E p \in Active : ForwardReturns(p)
    \/ \E p \in Active : ForwardRaises(p)
    \/ \E p \in Active : SumLosses(p)
    \/ \E p \in Active : ReduceLocal(p)
    \/ \E p \in Active : ReduceEnter(p)
    \/ DistReduce
    \/ \E p \in Active : MetersUpdate(p)
    \/ \E p \in Active : ZeroGrad(p)
    \/ \E p \in Active : Backward(p)
    \/ \E p \in Active : OptimizerStep(p)
    \/ \E p \in Active : Log(p)
    \/ \E p \in Active : SavePeriodic(p)
    \/ \E p \in Active : SaveFinal(p)

Spec == Init /\ [][Next]_vars

\* One statement of do_train on rank p.
Step(p) ==
    \/ Fetch(p) \/ EndTraining(p) \/ ForwardReturns(p) \/ ForwardRaises(p)
    \/ SumLosses(p) \/ ReduceLocal(p) \/ ReduceEnter(p) \/ MetersUpdate(p)
    \/ ZeroGrad(p) \/ Backward(p) \/ OptimizerStep(p) \/ Log(p)
    \/ SavePeriodic(p) \/ SaveFinal(p)

\* Every process keeps running while it has a statement to run, and a
\* collective every rank has called completes.
FairSpec ==
    Spec /\ (\A p \in Ranks : WF_vars(Step(p))) /\ WF_vars(DistReduce)


(***************************************************************************)
(* Properties                                                              *)
(***************************************************************************)
\* The statements of an iteration in program order; "fetch" is the loop
\* header, reached again when the iteration is over.
Position ==
    [forward |-> 1, losses |-> 2, reduce |-> 3, reduce_wait |-> 4, meters |-> 5,
     zero_grad |-> 6, backward |-> 7, opt_step |-> 8, log |-> 9, ckpt |-> 10,
     final |-> 11, fetch |-> 12, returned |-> 12, ZeroDivisionError |-> 12,
     UnboundLocalError |-> 2, off |-> 12]

\* Rank p has executed the statement stmt of its current iteration.
Past(p, stmt) == fetched[p] >= 1 /\ Position[pc[p]] > Position[stmt]

Terminated(p) == pc[p] \in {"returned", "UnboundLocalError", "ZeroDivisionError"}

\* The iteration of the batch last fetched is over: the loop is back at its
\* header, or do_train has ended.
IterationOver(p) == pc[p] = "fetch" \/ Terminated(p)

\* The sum, over the ranks in rs, of the value each rank's loss_dict has
\* for key k.
RECURSIVE KeySum(_, _)
KeySum(k, rs) ==
    IF rs = {} THEN Rat(0)
    ELSE LET r == CHOOSE x \in rs : TRUE
         IN  RatAdd(Get(loss_dict[r].items, k), KeySum(k, rs \ {r}))

\* A step in which rank 0 returns from the collective leaves it the dict of
\* the averages: the keys of its argument, each once, and for every key
\* the sum over the ranks of their loss_dict's value for that key, divided
\* by world_size.
C1_Rank0Average ==
    LET out == loss_dict_reduced'[0]
    IN  (world_size >= 2 /\ pc[0] = "reduce_wait" /\ pc'[0] = "meters") =>
          /\ Keys(out) = Keys(loss_dict[0].items)
          /\ Len(out) = Cardinality(Keys(out))
          /\ \A k \in Keys(out) :
               RatEq(Get(out, k), RatDiv(KeySum(k, Active), world_size))

\* C1: with world_size >= 2, when every rank has called reduce_loss_dict
\* on a loss dict over the same keys, in whatever insertion order, the dict
\* returned on rank 0 has those keys and, for every key, the sum over the
\* ranks of their values for it divided by world_size.
C1_ReduceAverages == [][C1_Rank0Average]_vars

\* Rank 0 holds an average that is not a whole number, of dicts the two
\* ranks built in different insertion orders.
C1_Witness ==
    /\ world_size = 2
    /\ pc[0] = "meters" /\ pc[1] = "meters"
    /\ loss_dict[0].items[1].k # loss_dict[1].items[1].k
    /\ \E i \in DOMAIN loss_dict_reduced[0] :
         /\ loss_dict_reduced[0][i].v.den = 2
         /\ loss_dict_reduced[0][i].v.num % 2 = 1

IsPeriodic(e) == e.name.stem = "model_"

IsFinalSave(e) == e.name = FinalName

\* The entries of a log (logged, written or saves) made while batch k was
\* in process.
During(log, k) == {i \in DOMAIN log : log[i].batch = k}

\* The forward pass of rank p's current iteration raised ValueError after
\* an earlier forward pass of the call had succeeded.
Stale(p) == forward_raised[p] /\ last_forward[p].bound

\* C2: in an iteration whose forward pass raised ValueError after an
\* earlier one succeeded, the error is swallowed and the iteration goes on
\* with the loss_dict of the most recent successful forward pass: that dict
\* is summed, reduced, given to the meters and back-propagated, and by the
\* end of the iteration zero_grad, backward, optimizer.step and the meters
\* update have each run for this batch, and the line is logged and the
\* checkpoints are saved when their conditions hold.
C2_StaleIterationRuns ==
    \A p \in Active : Stale(p) =>
        LET good == last_forward[p].items
        IN  /\ pc[p] # "UnboundLocalError"
            /\ loss_dict[p] = last_forward[p]
            /\ Past(p, "losses") => losses[p] = SumValues(good)
            /\ pc[p] = "reduce_wait" => all_losses[p] = Stack(good)
            /\ (Past(p, "reduce") /\ pc[p] # "reduce_wait" /\ ~IsDistributed(world_size))
                 => loss_dict_reduced[p] = good
            /\ (Past(p, "meters") /\ ~IsDistributed(world_size))
                 => meters[p].loss = SumValues(good)
            /\ Past(p, "backward") => backpropagated[p] = SumValues(good)
            /\ IterationOver(p) =>
                 /\ meters[p].count = fetched[p]
                 /\ calls[p].zero_grad = fetched[p]
                 /\ calls[p].backward = fetched[p]
                 /\ calls[p].optimizer_step = fetched[p]
                 /\ calls[p].reduce_returned = fetched[p]
                 /\ (iteration[p] % LogPeriod = 0 \/ iteration[p] = max_iter(p))
                      <=> During(logged[p], fetched[p]) # {}
                 /\ iteration[p] % checkpoint_period = 0
                      <=> \E i \in During(saves[p], fetched[p]) : IsPeriodic(saves[p][i])
                 /\ iteration[p] = max_iter(p)
                      <=> \E i \in During(saves[p], fetched[p]) : IsFinalSave(saves[p][i])

\* A third iteration has run to its end on the loss_dict of the second,
\* which differs from that of the first.
C2_Witness ==
    /\ Stale(0) /\ pc[0] = "fetch" /\ fetched[0] = 3
    /\ calls[0].optimizer_step = 3
    /\ \E i \in DOMAIN logged[0] :
         logged[0][i].batch = 1 /\ logged[0][i].loss # meters[0].loss

\* With world_size >= 2 no rank has returned from more reduce_loss_dict
\* calls than any rank has entered.
C3_NoEarlyReturn ==
    world_size >= 2 =>
        \A p, q \in Active : calls[p].reduce_returned <= calls[q].reduce_entered

\* A rank waiting in the collective while another rank's do_train has
\* ended is still waiting after any step.
C3_StaysBlocked ==
    \A p \in Active :
        (pc[p] = "reduce_wait" /\ \E q \in Active : Terminated(q))
            => pc'[p] = "reduce_wait"

\* C3: with world_size >= 2 no rank returns from its n-th
\* reduce_loss_dict call before every rank has entered its n-th call, and a
\* rank waiting in the collective while another rank's do_train has ended
\* (it raised, or its loader ran out) waits forever.
C3_BlockingCollective == []C3_NoEarlyReturn /\ [][C3_StaysBlocked]_vars

\* Rank 0 waits in its second reduction; rank 1's loader ran out after one
\* batch and its do_train has returned.
C3_Witness ==
    /\ world_size = 2
    /\ pc[0] = "reduce_wait" /\ calls[0].reduce_entered = 2
    /\ pc[1] = "returned" /\ fetched[1] = 1

\* arguments["iteration"] is start_iter plus the number of batches fetched,
\* and every save was given the iteration of the batch then in process,
\* after that batch's optimizer step.
C5_Progress ==
    \A p \in Active :
        /\ arguments[p] = start_iter + fetched[p]
        /\ \A i \in DOMAIN saves[p] :
             /\ saves[p][i].iteration = start_iter + saves[p][i].batch
             /\ saves[p][i].steps = saves[p][i].batch

\* arguments["iteration"] changes only when a batch is fetched, by 1.
C5_GrowsByOne ==
    \A p \in Active :
        \/ arguments'[p] = arguments[p] /\ fetched'[p] = fetched[p]
        \/ arguments'[p] = arguments[p] + 1 /\ fetched'[p] = fetched[p] + 1

\* C5: arguments["iteration"] is start_iter + k while the k-th batch is in
\* process, it changes only when a batch is fetched and then grows by 1, and
\* every checkpointer.save is given the iteration start_iter + k of the
\* batch k in process, whose optimizer step has been applied.
C5_IterationThreaded == []C5_Progress /\ [][C5_GrowsByOne]_vars

\* A resumed run has saved in its second iteration.
C5_Witness ==
    /\ start_iter = 19
    /\ \E i \in DOMAIN saves[0] :
         saves[0][i].batch = 2 /\ saves[0][i].iteration = 21

\* C6: when the first forward pass of the call raises ValueError, the
\* iteration gets no further than the loss summation, which raises
\* UnboundLocalError: no optimizer.step, meters update or save was made,
\* while arguments["iteration"] and the scheduler are one step on.
C6_FirstFailureAborts ==
    \A p \in Active : first_failed[p] =>
        /\ pc[p] \in {"losses", "UnboundLocalError"}
        /\ fetched[p] = 1
        /\ calls[p].optimizer_step = 0
        /\ calls[p].backward = 0
        /\ meters[p].count = 0
        /\ saves[p] = <<>>
        /\ arguments[p] = start_iter + 1
        /\ calls[p].scheduler_step = 1

C6_Witness ==
    /\ first_failed[0] /\ pc[0] = "UnboundLocalError"
    /\ arguments[0] = start_iter + 1 /\ calls[0].scheduler_step = 1

\* C9: with world_size < 2 reduce_loss_dict returns its argument as it is,
\* without a collective and without a division, so the loss given to the
\* meters is the loss that is back-propagated.
C9_SingleProcessIdentity ==
    world_size < 2 =>
        \A p \in Active :
            /\ calls[p].collectives = 0
            /\ calls[p].reduce_entered = calls[p].reduce_returned
            /\ Past(p, "reduce") =>
                 /\ loss_dict_reduced[p] = loss_dict[p].items
                 /\ \A i \in DOMAIN loss_dict_reduced[p] :
                      loss_dict_reduced[p][i].v.den = 1
            /\ Past(p, "meters") => meters[p].loss = losses[p]
            /\ Past(p, "backward") => backpropagated[p] = meters[p].loss

\* A single process has back-propagated the loss it logged, from a dict
\* whose insertion order is not the sorted one.
C9_Witness ==
    /\ world_size = 1 /\ pc[0] = "opt_step"
    /\ loss_dict[0].items[1].k = "loss_densebox_reg"
    /\ loss_dict_reduced[0] = loss_dict[0].items
    /\ backpropagated[0] = meters[0].loss

\* The number a sequence of decimal digits writes.
RECURSIVE DigitsValue(_)
DigitsValue(ds) ==
    IF ds = <<>> THEN 0
    ELSE 10 * DigitsValue(SubSeq(ds, 1, Len(ds) - 1)) + ds[Len(ds)]

\* The batches of rank p whose iteration is over.
Completed(p) == 1..(IF IterationOver(p) THEN fetched[p] ELSE fetched[p] - 1)

\* C4: for every batch fetched there is one scheduler.step, one forward
\* call, one zero_grad, one backward and one optimizer.step, in that order
\* (none runs ahead of the one before it, none lags more than the batch in
\* process, and all have run once the iteration is over), and every logged
\* line, written scalar and save is made after the optimizer.step of the
\* batch in process.
C4_OneOfEachInOrder ==
    \A p \in Active :
        /\ calls[p].scheduler_step = fetched[p]
        /\ calls[p].forward <= calls[p].scheduler_step
        /\ calls[p].zero_grad <= calls[p].forward
        /\ calls[p].backward <= calls[p].zero_grad
        /\ calls[p].optimizer_step <= calls[p].backward
        /\ fetched[p] <= calls[p].optimizer_step + 1
        /\ IterationOver(p) =>
             /\ calls[p].forward = fetched[p]
             /\ calls[p].zero_grad = fetched[p]
             /\ calls[p].backward = fetched[p]
             /\ calls[p].optimizer_step = fetched[p]
        /\ \A i \in DOMAIN logged[p] : logged[p][i].steps = logged[p][i].batch
        /\ \A i \in DOMAIN written[p] : written[p][i].steps = written[p][i].batch
        /\ \A i \in DOMAIN saves[p] : saves[p][i].steps = saves[p][i].batch

\* C7: a periodic checkpoint is named "model_" and the 7-digit, zero-padded
\* iteration number, is saved at most once an iteration and only in an
\* iteration whose number is a multiple of checkpoint_period, before
\* "model_final" when both are saved, and every iteration whose number is
\* a multiple of checkpoint_period has saved one by the time it is over.
C7_PeriodicCheckpoints ==
    \A p \in Active :
        /\ \A i \in DOMAIN saves[p] : IsPeriodic(saves[p][i]) =>
             /\ Len(saves[p][i].name.digits) = PadWidth
             /\ DigitsValue(saves[p][i].name.digits) = start_iter + saves[p][i].batch
             /\ (start_iter + saves[p][i].batch) % checkpoint_period = 0
        /\ \A i, j \in DOMAIN saves[p] :
             (IsPeriodic(saves[p][i]) /\ IsPeriodic(saves[p][j])
                /\ saves[p][i].batch = saves[p][j].batch) => i = j
        /\ \A i, j \in DOMAIN saves[p] :
             (IsPeriodic(saves[p][i]) /\ IsFinalSave(saves[p][j])
                /\ saves[p][i].batch = saves[p][j].batch) => i < j
        /\ \A k \in Completed(p) :
             (start_iter + k) % checkpoint_period = 0 =>
                 \E i \in During(saves[p], k) : IsPeriodic(saves[p][i])

\* The saves of "model_final" rank p has made.
FinalSaves(p) == {i \in DOMAIN saves[p] : IsFinalSave(saves[p][i])}

\* "model_final" was saved once, last of all saves, in the last iteration.
FinalSavedLast(p) ==
    /\ Cardinality(FinalSaves(p)) = 1
    /\ IsFinalSave(saves[p][Len(saves[p])])
    /\ saves[p][Len(saves[p])].batch = fetched[p]

\* C8 as stated: whenever do_train returns after at least one batch,
\* "model_final" was saved once, last of all saves, in the last iteration,
\* whatever arguments["iteration"] the call started from.
C8_FinalAlwaysSavedLast ==
    \A p \in Active :
        (pc[p] = "returned" /\ fetched[p] >= 1) => FinalSavedLast(p)

\* C8 as the code has it: when do_train returns after at least one batch,
\* "model_final" was saved once, last of all saves, in the last iteration
\* exactly when that iteration's number, start_iter plus the batches the
\* loader yielded, is len(data_loader); otherwise it was saved once in the
\* earlier iteration of that number if there is one, and not at all if
\* there is none.
C8_FinalSavedWhenLastIsMaxIter ==
    \A p \in Active :
        (pc[p] = "returned" /\ fetched[p] >= 1) =>
            /\ FinalSavedLast(p) <=> start_iter + fetched[p] = max_iter(p)
            /\ Cardinality(FinalSaves(p)) <= 1
            /\ FinalSaves(p) # {} <=>
                 (start_iter < max_iter(p) /\ max_iter(p) <= start_iter + fetched[p])
            /\ \A i \in FinalSaves(p) : saves[p][i].iteration = max_iter(p)

\* A run resumed at iteration 19 with a loader that yields the two batches
\* left of 21 has returned with "model_final" as its last save.
C8_Witness ==
    /\ pc[0] = "returned" /\ start_iter = 19 /\ fetched[0] = 2
    /\ max_iter(0) = 21
    /\ FinalSavedLast(0)

\* A resumed run has returned from a loader that yields len(data_loader)
\* batches, with "model_final" saved in an iteration before the last.
C8_WitnessEarly ==
    /\ pc[0] = "returned" /\ start_iter = 1 /\ fetched[0] = 3
    /\ max_iter(0) = 3
    /\ \E i \in FinalSaves(0) : saves[0][i].batch = 2

\* The ranks' loaders yield the same number of batches, at least one.
SameBatches ==
    \A p, q \in Active :
        data_loader[p].batches = data_loader[q].batches /\ data_loader[p].batches >= 1

AllReturned == \A p \in Active : pc[p] = "returned"

\* C10: with world_size >= 2 and loaders that yield the same non-zero
\* number of batches, do_train eventually returns on every rank unless some
\* rank's first forward pass raised ValueError, and the ranks have then run
\* the same number of iterations.
C10_AllReturn ==
    /\ (world_size >= 2 /\ SameBatches)
          => <>(AllReturned \/ \E p \in Active : first_failed[p])
    /\ [](world_size >= 2 /\ AllReturned =>
            \A p, q \in Active :
                /\ fetched[p] = fetched[q]
                /\ calls[p].optimizer_step = calls[q].optimizer_step
                /\ calls[p].collectives = fetched[p])

\* Both ranks have returned after two iterations, in the second of which
\* rank 0 reused a stale loss_dict.
C10_Witness ==
    /\ world_size = 2 /\ AllReturned
    /\ fetched[0] = 2 /\ fetched[1] = 2
    /\ Stale(0) /\ ~forward_raised[1]

====
